---- MODULE Spec2Model ----
(***************************************************************************)
(* A model of the RustZip compression engine (src/src/compressor.rs):      *)
(* compress_path / compress_path_with driving compress_single_file /       *)
(* compress_single_file_with over a small file system, the SHA-256         *)
(* manifest, choose_chunk_size and the codec round trip.                   *)
(***************************************************************************)
EXTENDS Integers, Sequences, FiniteSets, TLC

\* ------------------------------------------------------------------ bounds
\* Most non-empty reads one input file yields before end of file.
MaxReads == 2
\* Largest worker count passed on the command line.
MaxThreads == 2
\* Longest input of the round trip, in bytes.
MaxLen == 3
\* Bytes one read returns at most (the chunk size and io::copy's buffer, scaled).
BufSize == 2
\* Bytes an encoder gathers before it emits a block (scaled).
BlockSize == 2
\* The lines of a manifest found beside a file to decompress.
MaxLines == 1

\* ------------------------------------------------------------------- paths
\* A path is a sequence of components; a component is the sequence of the
\* dot-separated segments of its name: in/sub/b.txt is
\* << <<"in">>, <<"sub">>, <<"b","txt">> >>.

\* The bytes of the segments the model uses (ASCII), for String ordering.
SegBytes(s) ==
    CASE s = "a" -> <<97>>
      [] s = "b" -> <<98>>
      [] s = "md" -> <<109, 100>>
      [] s = "txt" -> <<116, 120, 116>>
      [] s = "zst" -> <<122, 115, 116>>
      [] s = "gz" -> <<103, 122>>
      [] s = "lz4" -> <<108, 122, 52>>
      [] s = "sub" -> <<115, 117, 98>>
      [] s = "res" -> <<114, 101, 115>>
      [] s = "in" -> <<105, 110>>
      [] s = "out" -> <<111, 117, 116>>
      [] s = "part" -> <<112, 97, 114, 116>>
      [] OTHER -> <<63>>

RECURSIVE JoinBytes(_, _, _)
\* The byte sequences parts[i], parts[i+1], ... joined with the byte sep.
JoinBytes(parts, sep, i) ==
    IF i > Len(parts) THEN <<>>
    ELSE (IF i > 1 THEN <<sep>> ELSE <<>>) \o parts[i] \o JoinBytes(parts, sep, i + 1)

\* to_string_lossy of one component: its segments joined by '.' (46).
NameBytes(name) == JoinBytes([i \in 1..Len(name) |-> SegBytes(name[i])], 46, 1)

\* to_string_lossy of a path: its components joined by '/' (47).
PathBytes(p) == JoinBytes([i \in 1..Len(p) |-> NameBytes(p[i])], 47, 1)

RECURSIVE BytesLess(_, _)
\* Ord for String: lexicographic on bytes, a proper prefix sorting first.
BytesLess(x, y) ==
    IF Len(y) = 0 THEN FALSE
    ELSE IF Len(x) = 0 THEN TRUE
    ELSE IF x[1] # y[1] THEN x[1] < y[1]
    ELSE BytesLess(Tail(x), Tail(y))

\* Path::join with a relative right-hand side.
Join(p, rel) == p \o rel

\* Path::file_name.
FileName(p) == p[Len(p)]

\* Path::parent.
Parent(p) == SubSeq(p, 1, Len(p) - 1)

\* Path::extension is Some: the name has a dot that is not its first byte.
HasExt(name) == Len(name) >= 2 /\ ~(Len(name) = 2 /\ name[1] = "")

\* Path::file_stem, as segments.
Stem(name) == IF HasExt(name) THEN SubSeq(name, 1, Len(name) - 1) ELSE name

\* Path::with_extension / PathBuf::set_extension: the stem followed by the
\* new extension, itself given as its dot-separated segments.
WithExtension(p, ext) == Append(Parent(p), Stem(FileName(p)) \o ext)

\* A faulty variant of TmpPath: the codec output is written in place.
TmpPathInPlace(out) == out

\* tmp_path: "<ext>.part" as the new extension, or "part" without one.
TmpPath(out) ==
    IF HasExt(FileName(out))
    THEN WithExtension(out, <<FileName(out)[Len(FileName(out))], "part">>)
    ELSE WithExtension(out, <<"part">>)

\* ------------------------------------------------------------ run's inputs
Codecs == {"zst", "gz", "lz4"}
\* Compressor::extension.
Extension(c) == c

InRoot == << <<"in">> >>
OutRoot == << <<"out">> >>
\* The regular files an input tree may hold, relative to its root.
Universe == { << <<"a", "txt">> >>, << <<"a", "md">> >>, << <<"sub">>, <<"b">> >> }
\* The single input file of single-file mode.
SingleInput == Join(InRoot, << <<"a", "txt">> >>)
\* An explicit (non-directory) output path of single-file mode.
ExplicitOutputs == { Join(OutRoot, << <<"res", "zst">> >>), << <<"res">> >> }

ManifestName == << <<"manifest-sha256", "txt">> >>

\* -------------------------------------------------------------- file data
NoFile == [kind |-> "absent"]
\* What an earlier run left at an output path.
Old == [kind |-> "z", src |-> <<>>, codec |-> "old", chunks |-> 0, fin |-> TRUE]
\* The temp file while the codec streams into it: chunks written so far.
Partial(src, c, k) == [kind |-> "z", src |-> src, codec |-> c, chunks |-> k, fin |-> FALSE]
\* sha256_file of a file's content (collision-free).
Sha256(content) == [sha |-> content]

\* What another process leaves in an output file it rewrites.
Tampered == [kind |-> "z", src |-> <<>>, codec |-> "tampered", chunks |-> 0, fin |-> TRUE]

NoJob == [input |-> <<>>]
\* The round trip's variable when no round trip is modelled.
RtIdle == [pc |-> "idle"]

VARIABLES
    entry,      \* "compress_path" | "compress_path_with"
    codec,      \* the codec of the run
    threads,    \* the worker count argument
    input,      \* input_path
    output,     \* output_path
    inKind,     \* "file" | "dir" | "none": what input_path is
    tree,       \* the regular files under input (relative), when a directory
    disk,       \* path -> content, the regular files of the output area
    dirs,       \* the directories that exist
    pool,       \* size of the global thread pool, 0 before it is built
    pc,         \* where the calling thread is
    files,      \* the walked file list
    idx,        \* jobs begun in the per-file loop
    manifest,   \* the BTreeMap, as its entries in key order
    result,     \* "running" | "ok" | "err"
    job,        \* the single-file compression in progress
    widx,       \* manifest lines written
    vidx,       \* manifest entries verified
    faulted,    \* an I/O or codec fault was injected
    started,    \* inputs whose job began, in order
    failed,     \* inputs whose job returned an error
    published,  \* final paths a rename of this run produced
    inflight,   \* jobs begun and not finished, with the thread running each
    tampered,   \* another process rewrote an output file after it was hashed
    file_size,  \* choose_chunk_size: its argument, as limbs <<hi, mid, lo>>
    chunk,      \* choose_chunk_size: its result, -1 before the call
    rt          \* the round trip of one file: compression, then decompression

vars == <<entry, codec, threads, input, output, inKind, tree, disk, dirs, pool,
          pc, files, idx, manifest, result, job, widx, vidx, faulted, started,
          failed, published, inflight, tampered, file_size, chunk, rt>>
cfgVars == <<entry, codec, threads, input, output, inKind, tree>>
mainVars == <<entry, codec, threads, input, output, inKind, tree, disk, dirs, pool,
              pc, files, idx, manifest, result, job, widx, vidx, faulted, started,
              failed, published, inflight, tampered>>
pureVars == <<file_size, chunk, rt>>

ReadDisk(p) == IF p \in DOMAIN disk THEN disk[p] ELSE NoFile

\* All orders of a finite set.
Perms(S) == { s \in [1..Cardinality(S) -> S] : \A i, j \in 1..Cardinality(S) : s[i] = s[j] => i = j }

\* A directory and the directories above it.
Ancestors(p) == { SubSeq(p, 1, n) : n \in 1..Len(p) }

\* --------------------------------------------------------------- manifest
ManifestPath == Join(output, ManifestName)

\* rel.with_extension("zst"): the manifest key of a walked file.
KeyOf(file) == WithExtension(SubSeq(file, Len(input) + 1, Len(file)), <<"zst">>)

\* A faulty variant of BTreeInsert: a Vec push, entries kept in arrival order.
VecPush(m, k, v) == Append(m, [file |-> k, hash |-> v])

\* BTreeMap::insert: the entry takes its place in key order; an equal key
\* has its value replaced.
BTreeInsert(m, k, v) ==
    LET lower == SelectSeq(m, LAMBDA e : BytesLess(PathBytes(e.file), PathBytes(k)))
        upper == SelectSeq(m, LAMBDA e : BytesLess(PathBytes(k), PathBytes(e.file)))
    IN lower \o <<[file |-> k, hash |-> v]>> \o upper

\* ------------------------------------------------------ single-file steps
\* A faulty variant of StepsNative: the temp file is never renamed.
StepsNativeNoRename == <<"open", "meta", "mkdir", "create", "encnew", "stream",
                          "finish", "flush", "stat">>

\* compress_single_file, in the order of its fallible calls.
StepsNative == <<"open", "meta", "mkdir", "create", "encnew", "stream",
                 "finish", "flush", "rename", "stat">>
\* compress_single_file_with, likewise (it writes through an unbuffered File).
StepsWith == <<"meta", "mkdir", "open", "create", "encnew", "stream",
               "finish", "rename", "stat">>
Steps == IF entry = "compress_path" THEN StepsNative ELSE StepsWith
CurStep == IF pc = "job" THEN Steps[job.step] ELSE "none"

\* A faulty variant of ErrPc: a failed file is skipped and the loop goes on.
ErrPcContinue == IF inKind = "dir" /\ pc \in {"job", "after"} THEN "loop" ELSE "failed"

\* `?` on a failed call: the error returns from compress_path{,_with}.
ErrPc == "failed"

\* A faulty variant of OnFailDisk: the temp file is removed on the error path.
OnFailDiskCleanup == [p \in DOMAIN disk \ {job.tmp} |-> disk[p]]

\* The error path of a single-file compression touches no file.
OnFailDisk == disk

NewJob(in, out) ==
    [input |-> in, out |-> out, tmp |-> TmpPath(out), step |-> 1, k |-> 0,
     tmpCreated |-> FALSE, renamed |-> FALSE, errAt |-> "none",
     pre |-> ReadDisk(out), runner |-> 0]

\* The calling thread (runner 0; the pool's workers are 1..pool) begins the
\* single-file compression of `in` into `out`.
BeginJob(in, out) ==
    /\ job' = NewJob(in, out)
    /\ started' = Append(started, in)
    /\ inflight' = inflight \cup {[input |-> in, runner |-> 0]}
    /\ pc' = "job"

\* A step of the job succeeds, leaving job j2 and the files d2.
JobOk(j2, d2) ==
    /\ job' = [j2 EXCEPT !.step = @ + 1]
    /\ disk' = d2
    /\ pc' = IF job.step = Len(Steps) THEN "after" ELSE "job"
    /\ inflight' = IF job.step = Len(Steps)
                   THEN { j \in inflight : j.input # job.input } ELSE inflight
    /\ UNCHANGED <<result, faulted, failed>>

\* A step of the job fails: the error propagates with `?`.
JobErr ==
    /\ job' = [job EXCEPT !.errAt = CurStep]
    /\ disk' = OnFailDisk
    /\ pc' = ErrPc
    /\ result' = "err"
    /\ faulted' = TRUE
    /\ failed' = failed \cup {job.input}
    /\ inflight' = { j \in inflight : j.input # job.input }

\* ------------------------------------------------------------------- Init
Init ==
    /\ entry \in {"compress_path", "compress_path_with"}
    /\ codec \in (IF entry = "compress_path" THEN {"zst"} ELSE Codecs)
    /\ threads \in 0..MaxThreads
    /\ inKind \in {"file", "dir", "none"}
    /\ input = IF inKind = "file" THEN SingleInput ELSE InRoot
    /\ tree \in (IF inKind = "dir" THEN SUBSET Universe ELSE {{}})
    /\ output \in (IF inKind = "file" THEN {OutRoot} \cup ExplicitOutputs ELSE {OutRoot})
    /\ dirs \in (IF output = OutRoot /\ inKind # "file"
                 THEN {{InRoot}, {InRoot, OutRoot}}
                 ELSE {{InRoot, OutRoot}})
    /\ \E stale \in BOOLEAN :
         disk = IF stale /\ OutRoot \in dirs
                THEN [p \in { WithExtension(Join(OutRoot, << <<"a", "txt">> >>),
                                            <<Extension(codec)>>) }
                            \cup ExplicitOutputs |-> Old]
                ELSE <<>>
    /\ pool = 0
    /\ pc = "start"
    /\ files = <<>>
    /\ idx = 0
    /\ manifest = <<>>
    /\ result = "running"
    /\ job = NoJob
    /\ widx = 0
    /\ vidx = 0
    /\ faulted = FALSE
    /\ started = <<>>
    /\ failed = {}
    /\ published = {}
    /\ inflight = {}
    /\ tampered = FALSE
    /\ file_size = <<0, 0, 0>>
    /\ chunk = -1
    /\ rt = RtIdle

\* ---------------------------------------------------------------- actions
\* ThreadPoolBuilder::new().num_threads(threads).build_global().ok():
\* 0 asks rayon for its default size; the pool is never handed a job.
BuildPool ==
    /\ pc = "start"
    /\ \E cpus \in 1..MaxThreads : pool' = IF threads = 0 THEN cpus ELSE threads
    /\ pc' = "dispatch"
    /\ UNCHANGED <<cfgVars, pureVars, tampered, disk, dirs, files, idx, manifest, result, job, widx,
                   vidx, faulted, started, failed, published, inflight>>

\* if input.is_file(): the single-file branch and its output path.
DispatchFile ==
    /\ pc = "dispatch" /\ inKind = "file"
    /\ LET out == IF output \in dirs
                  THEN Join(output, WithExtension(<<FileName(input)>>,
                                                  <<IF entry = "compress_path"
                                                    THEN "zst" ELSE Extension(codec)>>))
                  ELSE output
       IN BeginJob(input, out)
    /\ UNCHANGED <<cfgVars, pureVars, tampered, disk, dirs, pool, files, idx, manifest, result, widx,
                   vidx, faulted, failed, published>>

\* else if input.is_dir(): WalkDir lists the regular files, in directory order.
Walk ==
    /\ pc = "dispatch" /\ inKind = "dir"
    /\ \E order \in Perms(tree) : files' = [i \in 1..Len(order) |-> Join(input, order[i])]
    /\ pc' = "loop"
    /\ UNCHANGED <<cfgVars, pureVars, tampered, disk, dirs, pool, idx, manifest, result, job, widx,
                   vidx, faulted, started, failed, published, inflight>>

\* else: bail!("Input path is not a file or directory").
DispatchNone ==
    /\ pc = "dispatch" /\ inKind = "none"
    /\ pc' = "failed"
    /\ result' = "err"
    /\ UNCHANGED <<cfgVars, pureVars, tampered, disk, dirs, pool, files, idx, manifest, job, widx,
                   vidx, faulted, started, failed, published, inflight>>

\* for file in files: the next file's job begins on the calling thread.
LoopNext ==
    /\ pc = "loop" /\ idx < Len(files)
    /\ LET file == files[idx + 1]
           rel == SubSeq(file, Len(input) + 1, Len(file))
           out_file == WithExtension(Join(output, rel),
                                     <<IF entry = "compress_path"
                                       THEN "zst" ELSE Extension(codec)>>)
       IN BeginJob(file, out_file)
    /\ idx' = idx + 1
    /\ UNCHANGED <<cfgVars, pureVars, tampered, disk, dirs, pool, files, manifest, result, widx, vidx,
                   faulted, failed, published>>

\* The loop is over: compress_path goes on to write the manifest,
\* compress_path_with returns Ok.
LoopEnd ==
    /\ pc = "loop" /\ idx = Len(files)
    /\ pc' = IF entry = "compress_path" THEN "mcreate" ELSE "done"
    /\ result' = IF entry = "compress_path" THEN result
                 ELSE IF result = "running" THEN "ok" ELSE result
    /\ UNCHANGED <<cfgVars, pureVars, tampered, disk, dirs, pool, files, idx, manifest, job, widx,
                   vidx, faulted, started, failed, published, inflight>>

\* File::open(input_path).
OpenInput ==
    /\ CurStep = "open"
    /\ \/ JobOk(job, disk)
       \/ JobErr
    /\ UNCHANGED <<cfgVars, pureVars, tampered, dirs, pool, files, idx, manifest, widx, vidx,
                   started, published>>

\* metadata(input_path)?.len().
Metadata ==
    /\ CurStep = "meta"
    /\ \/ JobOk(job, disk)
       \/ JobErr
    /\ UNCHANGED <<cfgVars, pureVars, tampered, dirs, pool, files, idx, manifest, widx, vidx,
                   started, published>>

\* std::fs::create_dir_all(parent).
CreateDirAll ==
    /\ CurStep = "mkdir"
    /\ \/ /\ JobOk(job, disk)
          /\ dirs' = dirs \cup Ancestors(Parent(job.out))
       \/ /\ JobErr
          /\ dirs' = dirs
    /\ UNCHANGED <<cfgVars, pureVars, tampered, pool, files, idx, manifest, widx, vidx,
                   started, published>>

\* File::create(&tmp_path): the temp file exists and is empty.
CreateTmp ==
    /\ CurStep = "create"
    /\ \/ JobOk([job EXCEPT !.tmpCreated = TRUE],
                (job.tmp :> Partial(job.input, codec, 0)) @@ disk)
       \/ JobErr
    /\ UNCHANGED <<cfgVars, pureVars, tampered, dirs, pool, files, idx, manifest, widx, vidx,
                   started, published>>

\* Encoder::new(writer, level) (the gzip and lz4 encoders cannot fail here).
EncoderNew ==
    /\ CurStep = "encnew"
    /\ \/ JobOk(job, disk)
       \/ codec = "zst" /\ JobErr
    /\ UNCHANGED <<cfgVars, pureVars, tampered, dirs, pool, files, idx, manifest, widx, vidx,
                   started, published>>

\* One turn of the read loop: a non-empty read is handed to the encoder,
\* whose output goes to the temp file; or the read or the write fails.
StreamChunk ==
    /\ CurStep = "stream"
    /\ \/ /\ job.k < MaxReads
          /\ job' = [job EXCEPT !.k = @ + 1]
          /\ disk' = (job.tmp :> Partial(job.input, codec, job.k + 1)) @@ disk
          /\ UNCHANGED <<pc, result, faulted, failed, inflight>>
       \/ JobErr
    /\ UNCHANGED <<cfgVars, pureVars, tampered, dirs, pool, files, idx, manifest, widx, vidx,
                   started, published>>

\* The read returns 0: end of input, the loop ends.
StreamEof ==
    /\ CurStep = "stream"
    /\ JobOk(job, disk)
    /\ UNCHANGED <<cfgVars, pureVars, tampered, dirs, pool, files, idx, manifest, widx, vidx,
                   started, published>>

\* encoder.finish(): the epilogue is written; through the unbuffered File of
\* compress_single_file_with the temp file is complete, through the
\* BufWriter of compress_single_file it is complete after the flush.
Finish ==
    /\ CurStep = "finish"
    /\ \/ JobOk(job, IF entry = "compress_path" THEN disk
                     ELSE (job.tmp :> [disk[job.tmp] EXCEPT !.fin = TRUE]) @@ disk)
       \/ JobErr
    /\ UNCHANGED <<cfgVars, pureVars, tampered, dirs, pool, files, idx, manifest, widx, vidx,
                   started, published>>

\* writer.flush().
Flush ==
    /\ CurStep = "flush"
    /\ \/ JobOk(job, (job.tmp :> [disk[job.tmp] EXCEPT !.fin = TRUE]) @@ disk)
       \/ JobErr
    /\ UNCHANGED <<cfgVars, pureVars, tampered, dirs, pool, files, idx, manifest, widx, vidx,
                   started, published>>

\* std::fs::rename(&tmp_path, output_path).
Rename ==
    /\ CurStep = "rename"
    /\ \/ /\ JobOk([job EXCEPT !.renamed = TRUE],
                   [p \in (DOMAIN disk \ {job.tmp}) \cup {job.out} |->
                        IF p = job.out THEN disk[job.tmp] ELSE disk[p]])
          /\ published' = published \cup {job.out}
       \/ /\ JobErr
          /\ published' = published
    /\ UNCHANGED <<cfgVars, pureVars, tampered, dirs, pool, files, idx, manifest, widx, vidx, started>>

\* metadata(output_path)?.len(), and the Stats are returned.
StatOutput ==
    /\ CurStep = "stat"
    /\ \/ JobOk(job, disk)
       \/ JobErr
    /\ UNCHANGED <<cfgVars, pureVars, tampered, dirs, pool, files, idx, manifest, widx, vidx,
                   started, published>>

\* compress_path after a job: sha256_file of the output file, and the
\* manifest entry (the file name in single-file mode, else the relative
\* path with the extension replaced).
RecordDigest ==
    /\ pc = "after" /\ entry = "compress_path"
    /\ \/ /\ job.out \in DOMAIN disk
          /\ LET key == IF inKind = "file" THEN <<FileName(job.out)>>
                        ELSE KeyOf(job.input)
             IN manifest' = BTreeInsert(manifest, key, Sha256(disk[job.out]))
          /\ pc' = IF inKind = "file" THEN "verify" ELSE "loop"
          /\ UNCHANGED <<result, faulted, failed>>
       \/ /\ pc' = ErrPc
          /\ result' = "err"
          /\ faulted' = TRUE
          /\ failed' = failed \cup {job.input}
          /\ manifest' = manifest
    /\ UNCHANGED <<cfgVars, pureVars, tampered, disk, dirs, pool, files, idx, job, widx, vidx,
                   started, published, inflight>>

\* compress_path_with after a job: Ok(()) in single-file mode; in a tree,
\* global_bar.inc(metadata(&file)?.len()).
AfterJobWith ==
    /\ pc = "after" /\ entry = "compress_path_with"
    /\ \/ /\ pc' = IF inKind = "file" THEN "done" ELSE "loop"
          /\ result' = IF inKind = "file" /\ result = "running" THEN "ok" ELSE result
          /\ UNCHANGED <<faulted, failed>>
       \/ /\ inKind = "dir"
          /\ pc' = ErrPc
          /\ result' = "err"
          /\ faulted' = TRUE
          /\ failed' = failed \cup {job.input}
    /\ UNCHANGED <<cfgVars, pureVars, tampered, disk, dirs, pool, files, idx, manifest, job, widx, vidx,
                   started, published, inflight>>

\* File::create(&manifest_path): fails when the output root does not exist.
CreateManifest ==
    /\ pc = "mcreate"
    /\ \/ /\ output \in dirs
          /\ disk' = (ManifestPath :> [kind |-> "manifest", lines |-> <<>>]) @@ disk
          /\ pc' = "mwrite"
          /\ UNCHANGED <<result, faulted>>
       \/ /\ disk' = disk
          /\ pc' = "failed"
          /\ result' = "err"
          /\ faulted' = (output \in dirs)
    /\ UNCHANGED <<cfgVars, pureVars, tampered, dirs, pool, files, idx, manifest, job, widx, vidx,
                   started, failed, published, inflight>>

\* writeln!(mf, "{}  {}", hash, file) for the next entry of the map.
WriteLine ==
    /\ pc = "mwrite" /\ widx < Len(manifest)
    /\ \/ /\ disk' = (ManifestPath :>
                        [disk[ManifestPath] EXCEPT !.lines = Append(@, manifest[widx + 1])])
                     @@ disk
          /\ widx' = widx + 1
          /\ UNCHANGED <<pc, result, faulted>>
       \/ /\ pc' = "failed"
          /\ result' = "err"
          /\ faulted' = TRUE
          /\ UNCHANGED <<disk, widx>>
    /\ UNCHANGED <<cfgVars, pureVars, tampered, dirs, pool, files, idx, manifest, job, vidx,
                   started, failed, published, inflight>>

\* Every entry is written: on to the verification.
WriteEnd ==
    /\ pc = "mwrite" /\ widx = Len(manifest)
    /\ pc' = "verify"
    /\ UNCHANGED <<cfgVars, pureVars, tampered, disk, dirs, pool, files, idx, manifest, result, job, widx,
                   vidx, faulted, started, failed, published, inflight>>

\* for (file, expected) in &manifest: sha256_file(&output.join(file)) is
\* compared with the recorded digest.
VerifyEntry ==
    /\ pc = "verify" /\ vidx < Len(manifest)
    /\ LET path == Join(output, manifest[vidx + 1].file)
       IN \/ /\ path \in DOMAIN disk
             /\ Sha256(disk[path]) = manifest[vidx + 1].hash
             /\ vidx' = vidx + 1
             /\ UNCHANGED <<pc, result, faulted>>
          \/ /\ path \in DOMAIN disk
             /\ Sha256(disk[path]) # manifest[vidx + 1].hash
             /\ pc' = "failed"
             /\ result' = "err"
             /\ UNCHANGED <<vidx, faulted>>
          \/ /\ pc' = "failed"
             /\ result' = "err"
             /\ faulted' = (path \in DOMAIN disk)
             /\ vidx' = vidx
    /\ UNCHANGED <<cfgVars, pureVars, tampered, disk, dirs, pool, files, idx, manifest, job, widx,
                   started, failed, published, inflight>>

\* "All files verified by SHA-256 hash." and Ok(()).
VerifyEnd ==
    /\ pc = "verify" /\ vidx = Len(manifest)
    /\ pc' = "done"
    /\ result' = IF result = "running" THEN "ok" ELSE result
    /\ UNCHANGED <<cfgVars, pureVars, tampered, disk, dirs, pool, files, idx, manifest, job, widx,
                   vidx, faulted, started, failed, published, inflight>>

\* Another process rewrites an output file this run has already hashed,
\* before the verification reads it again (at most once in a run).
Tamper ==
    /\ pc \in {"loop", "mcreate", "mwrite", "verify"} /\ ~tampered
    /\ \E i \in (vidx + 1)..Len(manifest) :
         /\ Join(output, manifest[i].file) \in DOMAIN disk
         /\ disk' = (Join(output, manifest[i].file) :> Tampered) @@ disk
    /\ tampered' = TRUE
    /\ UNCHANGED <<cfgVars, pureVars, dirs, pool, pc, files, idx, manifest, result, job,
                   widx, vidx, faulted, started, failed, published, inflight>>

Next ==
    \/ BuildPool
    \/ DispatchFile
    \/ Walk
    \/ DispatchNone
    \/ LoopNext
    \/ LoopEnd
    \/ OpenInput
    \/ Metadata
    \/ CreateDirAll
    \/ CreateTmp
    \/ EncoderNew
    \/ StreamChunk
    \/ StreamEof
    \/ Finish
    \/ Flush
    \/ Rename
    \/ StatOutput
    \/ RecordDigest
    \/ AfterJobWith
    \/ CreateManifest
    \/ WriteLine
    \/ WriteEnd
    \/ VerifyEntry
    \/ VerifyEnd
    \/ Tamper

Spec == Init /\ [][Next]_vars

\* ------------------------------------------------------ choose_chunk_size
\* A u64 is held as three limbs <<hi, mid, lo>> of 24 bits (hi of 16):
\* hi * 2^48 + mid * 2^24 + lo.
Base == 2 ^ 24
\* The width of usize on the build target.
UsizeBits == 64

\* file_size / 64 on a u64.
Div64(n) ==
    << n[1] \div 64,
       (n[2] \div 64) + (n[1] % 64) * (Base \div 64),
       (n[3] \div 64) + (n[2] % 64) * (Base \div 64) >>

\* `as usize`: the value modulo 2^UsizeBits.
AsUsize(n) == << n[1] % (2 ^ (UsizeBits - 48)), n[2], n[3] >>

\* usize::clamp(min, max), for min and max below 2^24.
Clamp(n, min, max) ==
    IF n[1] = 0 /\ n[2] = 0 /\ n[3] < min THEN min
    ELSE IF n[1] > 0 \/ n[2] > 0 \/ n[3] > max THEN max
    ELSE n[3]

\* A faulty variant of choose_chunk_size: the lower limit is not applied.
choose_chunk_size_no_min(size) ==
    LET max == 4 * 1024 * 1024
        c == AsUsize(Div64(size))
    IN Clamp(c, 0, max)

\* choose_chunk_size(file_size).
choose_chunk_size(size) ==
    LET min == 256 * 1024
        max == 4 * 1024 * 1024
        c == AsUsize(Div64(size))
    IN Clamp(c, min, max)

\* The file lengths tried: every combination of these limb values, from 0 to
\* 2^64 - 1, around each limit of the clamp.
FileSizes ==
    { <<hi, mid, lo>> : hi \in {0, 1, 63, 64, 65535},
                        mid \in {0, 1, 15, 16, 17, 63, 64, Base - 1},
                        lo \in {0, 1, 63, 64, Base - 64, Base - 1} }

\* Every variable of the directory and single-file compression at rest.
MainIdle ==
    /\ entry = "none" /\ codec = "zst" /\ threads = 1
    /\ input = <<>> /\ output = <<>> /\ inKind = "none" /\ tree = {}
    /\ disk = <<>> /\ dirs = {} /\ pool = 0 /\ pc = "idle"
    /\ files = <<>> /\ idx = 0 /\ manifest = <<>> /\ result = "running"
    /\ job = NoJob /\ widx = 0 /\ vidx = 0 /\ faulted = FALSE
    /\ started = <<>> /\ failed = {} /\ published = {} /\ inflight = {}
    /\ tampered = FALSE

InitChunk ==
    /\ MainIdle
    /\ rt = RtIdle
    /\ file_size \in FileSizes
    /\ chunk = -1

\* let chunk_size = choose_chunk_size(file_size).
ChooseChunk ==
    /\ chunk = -1
    /\ chunk' = choose_chunk_size(file_size)
    /\ UNCHANGED <<mainVars, file_size, rt>>

NextChunk == ChooseChunk

SpecChunk == InitChunk /\ [][NextChunk]_vars

\* -------------------------------------------------------------- round trip
\* The byte values of the inputs: a zero byte and one that is invalid UTF-8.
ByteValues == {0, 159}
\* The inputs: every byte sequence of length 0..MaxLen.
Inputs == UNION { [1..n -> ByteValues] : n \in 0..MaxLen }
\* How a file is compressed and decompressed: compress_single_file and
\* decompress_file (zstd), or the _with functions with one of the codecs.
Pipelines ==
    {[fn |-> "native", codec |-> "zst"]} \cup { [fn |-> "with", codec |-> c] : c \in Codecs }

\* The first byte of each format's frame.
Magic(c) == CASE c = "zst" -> 40 [] c = "gz" -> 31 [] c = "lz4" -> 4

RECURSIVE SumBytes(_)
SumBytes(b) == IF Len(b) = 0 THEN 0 ELSE (b[1] + SumBytes(Tail(b))) % 256

\* A block of a frame: its length, then its bytes.
Block(b) == <<Len(b)>> \o b

RECURSIVE EncWrite(_, _)
\* Encoder::write_all: the bytes join those the encoder holds; every full
\* BlockSize of them leaves as a block. The result is the bytes emitted and
\* the bytes still held.
EncWrite(held, b) ==
    LET all == held \o b
    IN IF Len(all) >= BlockSize
       THEN LET rest == EncWrite(<<>>, SubSeq(all, BlockSize + 1, Len(all)))
            IN [out |-> Block(SubSeq(all, 1, BlockSize)) \o rest.out, held |-> rest.held]
       ELSE [out |-> <<>>, held |-> all]

\* Encoder::finish: the bytes held leave as a last block, then the end mark
\* and, for gzip, the checksum and length of the content.
EncFinish(c, held, sum, total) ==
    (IF Len(held) > 0 THEN Block(held) ELSE <<>>)
    \o <<0>>
    \o (IF c = "gz" THEN <<sum, total % 256>> ELSE <<>>)

\* BufWriter::write_all on a writer of capacity cap over a file: w is
\* [buf, file]; bytes that do not fit flush the buffer first, and a write of
\* cap bytes or more goes straight to the file.
BufWrite(w, b, cap) ==
    LET flushed == IF Len(w.buf) + Len(b) > cap
                   THEN [buf |-> <<>>, file |-> w.file \o w.buf]
                   ELSE w
    IN IF Len(b) >= cap
       THEN [flushed EXCEPT !.file = @ \o b]
       ELSE [flushed EXCEPT !.buf = @ \o b]

\* The encoder's output reaches the temp file: through the BufWriter in
\* compress_single_file, directly in compress_single_file_with.
Sink(r, b) ==
    IF r.fn = "native"
    THEN LET w == BufWrite([buf |-> r.wbuf, file |-> r.tmp], b, BufSize)
         IN [r EXCEPT !.wbuf = w.buf, !.tmp = w.file]
    ELSE [r EXCEPT !.tmp = @ \o b]

\* The whole frame the encoder makes of the bytes d.
Frame(c, d) ==
    LET w == EncWrite(<<>>, d)
    IN <<Magic(c)>> \o w.out \o EncFinish(c, w.held, SumBytes(d), Len(d))

\* The files a decompression may be given for the bytes d: the frame, each
\* of its proper prefixes (a truncated file, the empty file included), and
\* the frame with another first byte (not a file of the format).
Streams(c, d) ==
    { SubSeq(Frame(c, d), 1, n) : n \in 0..Len(Frame(c, d)) }
        \cup { <<Magic(c) + 1>> \o Tail(Frame(c, d)) }

\* What an earlier run left at the output path of a decompression.
PrevContent == <<7>>
\* Path::new(output_path).file_name(), and another file's name.
OutName == "out"
OtherName == "other"

\* manifest-sha256.txt in the directory of the input file: absent, not
\* readable as UTF-8, or its lines, each a digest and a file name.
NoManifest == [exists |-> FALSE, utf8 |-> TRUE, lines |-> <<>>]
ManifestLineSet(d) ==
    { [hash |-> h, file |-> f] : h \in {Sha256(d), Sha256(<<1>>)}, f \in {OutName, OtherName} }
Manifests(d) ==
    {NoManifest, [exists |-> TRUE, utf8 |-> FALSE, lines |-> <<>>]}
        \cup { [exists |-> TRUE, utf8 |-> TRUE, lines |-> l] :
                 l \in UNION { [1..n -> ManifestLineSet(d)] : n \in 0..MaxLines } }

\* A faulty variant of ManifestFails: every line is compared, whatever file it names.
ManifestFailsAnyName(mf, name, actual) ==
    mf.exists /\ (~mf.utf8 \/ \E i \in 1..Len(mf.lines) : mf.lines[i].hash # actual)

\* The integrity check at the end of decompress_file returns an error:
\* the manifest exists and read_to_string fails, or a line names the
\* output's file name with a digest that is not the output's.
ManifestFails(mf, name, actual) ==
    mf.exists /\ (~mf.utf8 \/ \E i \in 1..Len(mf.lines) :
                                 mf.lines[i].file = name /\ mf.lines[i].hash # actual)

\* A faulty variant of ReadSlice: the whole buffer is written, not the n bytes read.
ReadSliceWholeBuf(buf, n) == buf

\* &buf[..n]: the bytes the read returned.
ReadSlice(buf, n) == SubSeq(buf, 1, n)

\* The position a turn of the read loop gives the job's progress bar, after
\* total_read bytes were read: bar.set_position(total_read.min(original_size))
\* in compress_single_file, self.bar.set_position(self.total) in the
\* ProgressReader of compress_single_file_with.
SetPosition(fn, total_read, len) ==
    IF fn = "native"
    THEN (IF total_read < len THEN total_read ELSE len)
    ELSE total_read

\* The state before the encoder is made: the input file and its bytes as
\* the reads will find them, and the progress bar, ProgressBar::new(len),
\* with len the length that metadata reported (the file may have been
\* rewritten since). The directory of the compressed file holds no manifest.
InitRoundTrip ==
    /\ MainIdle
    /\ file_size = <<0, 0, 0>>
    /\ chunk = -1
    /\ \E p \in Pipelines, d \in Inputs, len \in 0..MaxLen :
         rt = [pc |-> "encnew", fn |-> p.fn, codec |-> p.codec, data |-> d, pos |-> 0,
               buf |-> [i \in 1..BufSize |-> 0], held |-> <<>>, sum |-> 0, total |-> 0,
               wbuf |-> <<>>, tmp |-> <<>>, final |-> <<>>, published |-> FALSE,
               dpos |-> 0, outExists |-> FALSE, out |-> <<>>,
               barLen |-> len, barPos |-> 0,
               preExists |-> FALSE, preOut |-> <<>>, mf |-> NoManifest]

\* Encoder::new(output, level), GzEncoder::new, Lz4Encoder::new: the frame
\* begins.
RtEncoderNew ==
    /\ rt.pc = "encnew"
    /\ rt' = [Sink(rt, <<Magic(rt.codec)>>) EXCEPT !.pc = "copy"]
    /\ UNCHANGED <<mainVars, file_size, chunk>>

\* One turn of the read loop (std::io::copy in the codecs): a read of
\* 1..BufSize bytes into the buffer, the progress bar is set, and the bytes
\* read go to the encoder.
RtCopy ==
    /\ rt.pc = "copy" /\ rt.pos < Len(rt.data)
    /\ \E n \in 1..BufSize :
         /\ rt.pos + n <= Len(rt.data)
         /\ LET buf2 == [i \in 1..BufSize |->
                            IF i <= n THEN rt.data[rt.pos + i] ELSE rt.buf[i]]
                given == ReadSlice(buf2, n)
                w == EncWrite(rt.held, given)
            IN rt' = [Sink(rt, w.out) EXCEPT !.buf = buf2, !.pos = rt.pos + n,
                                            !.held = w.held,
                                            !.sum = (@ + SumBytes(given)) % 256,
                                            !.total = @ + Len(given),
                                            !.barPos = SetPosition(rt.fn, rt.pos + n,
                                                                   rt.barLen)]
    /\ UNCHANGED <<mainVars, file_size, chunk>>

\* The read returns 0 and encoder.finish() ends the frame; in
\* compress_single_file_with bar.finish_with_message follows, which sets the
\* bar to its length.
RtFinish ==
    /\ rt.pc = "copy" /\ rt.pos = Len(rt.data)
    /\ rt' = [Sink(rt, EncFinish(rt.codec, rt.held, rt.sum, rt.total))
                EXCEPT !.held = <<>>,
                       !.barPos = IF rt.fn = "native" THEN @ ELSE rt.barLen,
                       !.pc = IF rt.fn = "native" THEN "flush" ELSE "rename"]
    /\ UNCHANGED <<mainVars, file_size, chunk>>

\* writer.flush() and bar.finish_with_message (compress_single_file).
RtFlush ==
    /\ rt.pc = "flush"
    /\ rt' = [rt EXCEPT !.tmp = @ \o rt.wbuf, !.wbuf = <<>>, !.barPos = rt.barLen,
                        !.pc = "rename"]
    /\ UNCHANGED <<mainVars, file_size, chunk>>

\* std::fs::rename(&tmp_path, output_path); the decompression is then run
\* on the published file.
RtRename ==
    /\ rt.pc = "rename"
    /\ rt' = [rt EXCEPT !.final = rt.tmp, !.tmp = <<>>, !.published = TRUE,
                        !.pc = IF rt.fn = "native" THEN "decnew" ELSE "mkout"]
    /\ UNCHANGED <<mainVars, file_size, chunk>>

\* File::create(output_path): the output file exists and is empty.
RtCreateOut ==
    /\ rt.pc = "mkout"
    /\ rt' = [rt EXCEPT !.outExists = TRUE, !.out = <<>>,
                        !.pc = IF rt.fn = "native" THEN "decode" ELSE "decnew"]
    /\ UNCHANGED <<mainVars, file_size, chunk>>

\* Decoder::new(input), GzDecoder::new(output), Lz4Decoder::new(input): the
\* decoder is made; it has read nothing of the input yet.
RtDecoderNew ==
    /\ rt.pc = "decnew"
    /\ rt' = [rt EXCEPT !.dpos = 1,
                        !.pc = IF rt.fn = "native" THEN "mkout" ELSE "decode"]
    /\ UNCHANGED <<mainVars, file_size, chunk>>

\* Where a decompression goes once the copy has returned Ok: decompress_file
\* goes on to its integrity check, decompress_file_with returns.
CopiedPc(fn) == IF fn = "native" THEN "mcheck" ELSE "done"

\* std::io::copy through the decoder, one turn: the frame's first byte, then
\* one block a turn, whose bytes go to the output file; at the end mark the
\* copy returns. An empty input is an error for the zstd decoder only. Input
\* that ends early is an error for the zstd and lz4 decoders; the gzip
\* decoder is on the write side and is dropped without finish(), so it
\* writes the bytes it got and reports neither the early end nor its
\* trailer.
RtDecode ==
    /\ rt.pc = "decode"
    /\ rt' = IF rt.dpos = 1 /\ Len(rt.final) = 0
             THEN [rt EXCEPT !.pc = IF rt.codec = "zst" THEN "error" ELSE CopiedPc(rt.fn)]
             ELSE IF rt.dpos = 1
             THEN (IF rt.final[1] = Magic(rt.codec)
                   THEN [rt EXCEPT !.dpos = 2]
                   ELSE [rt EXCEPT !.pc = "error"])
             ELSE IF rt.dpos > Len(rt.final)
             THEN [rt EXCEPT !.pc = IF rt.codec = "gz" THEN CopiedPc(rt.fn) ELSE "error"]
             ELSE IF rt.final[rt.dpos] = 0
             THEN [rt EXCEPT !.pc = CopiedPc(rt.fn)]
             ELSE IF rt.dpos + rt.final[rt.dpos] > Len(rt.final)
             THEN (IF rt.codec = "gz"
                   THEN [rt EXCEPT !.out = @ \o SubSeq(rt.final, rt.dpos + 1, Len(rt.final)),
                                   !.pc = CopiedPc(rt.fn)]
                   ELSE [rt EXCEPT !.pc = "error"])
             ELSE [rt EXCEPT !.out = @ \o SubSeq(rt.final, rt.dpos + 1,
                                                  rt.dpos + rt.final[rt.dpos]),
                             !.dpos = @ + rt.final[rt.dpos] + 1]
    /\ UNCHANGED <<mainVars, file_size, chunk>>

\* The integrity check of decompress_file, after the output is written: the
\* manifest beside the input, if there is one, is read, and a line naming
\* the output's file name must carry the digest of the output.
RtManifestCheck ==
    /\ rt.pc = "mcheck"
    /\ rt' = [rt EXCEPT !.pc = IF ManifestFails(rt.mf, OutName, Sha256(rt.out))
                               THEN "mfail" ELSE "done"]
    /\ UNCHANGED <<mainVars, file_size, chunk>>

NextRoundTrip ==
    \/ RtEncoderNew
    \/ RtCopy
    \/ RtFinish
    \/ RtFlush
    \/ RtRename
    \/ RtCreateOut
    \/ RtDecoderNew
    \/ RtDecode
    \/ RtManifestCheck

SpecRoundTrip == InitRoundTrip /\ [][NextRoundTrip]_vars

\* ------------------------------------------------------------ decompression
\* decompress_file or decompress_file_with, its input file opened: the
\* input is the frame of some bytes, whole or damaged; the output path holds
\* an earlier file or none; the input's directory holds a manifest or none.
InitDecompress ==
    /\ MainIdle
    /\ file_size = <<0, 0, 0>>
    /\ chunk = -1
    /\ \E p \in Pipelines, d \in Inputs, prev \in BOOLEAN :
         \E s \in Streams(p.codec, d), m \in Manifests(d) :
           rt = [pc |-> IF p.fn = "native" THEN "decnew" ELSE "mkout",
                 fn |-> p.fn, codec |-> p.codec, data |-> d, pos |-> 0,
                 buf |-> [i \in 1..BufSize |-> 0], held |-> <<>>, sum |-> 0, total |-> 0,
                 wbuf |-> <<>>, tmp |-> <<>>, final |-> s, published |-> TRUE,
                 dpos |-> 0, outExists |-> prev,
                 out |-> IF prev THEN PrevContent ELSE <<>>,
                 barLen |-> 0, barPos |-> 0,
                 preExists |-> prev, preOut |-> IF prev THEN PrevContent ELSE <<>>,
                 mf |-> m]

NextDecompress ==
    \/ RtCreateOut
    \/ RtDecoderNew
    \/ RtDecode
    \/ RtManifestCheck

SpecDecompress == InitDecompress /\ [][NextDecompress]_vars

\* ------------------------------------------------------------------ claims
\* The complete compressed output of the job's input.
CompleteOutput == [kind |-> "z", src |-> job.input, codec |-> codec, chunks |-> job.k, fin |-> TRUE]

\* A single-file compression is under way or has just returned.
InJob == job # NoJob /\ (pc \in {"job", "after"} \/ job.errAt # "none")

\* The lines of the manifest file on disk.
ManifestLines == disk[ManifestPath].lines

\* C1. Atomic publication: all through a single-file compression the final
\* output path holds what it held before the job, or, once the rename has
\* happened, the complete compressed output; an incomplete compressed file
\* exists only at a path whose name ends in ".part".
C1_AtomicPublication ==
    /\ InJob =>
         \/ ReadDisk(job.out) = job.pre /\ ~job.renamed
         \/ ReadDisk(job.out) = CompleteOutput /\ job.renamed
    /\ \A p \in DOMAIN disk :
         (disk[p].kind = "z" /\ ~disk[p].fin) =>
             FileName(p)[Len(FileName(p))] = "part"

\* C1 witness: the codec has streamed into the temp file, the encoder is not
\* finished, and the final path still holds the earlier run's file.
C1_Witness ==
    /\ pc = "job" /\ job.tmpCreated /\ ~job.renamed
    /\ ReadDisk(job.tmp) = Partial(job.input, codec, 1)
    /\ job.pre = Old /\ ReadDisk(job.out) = Old

\* C2. Failure before publish: when a step before the rename (or the rename
\* itself) fails, the operation returns an error, no rename is performed, the
\* final path holds what it held before, and a temp file already created is
\* still there.
C2_FailureBeforePublish ==
    (job # NoJob /\ job.errAt \notin {"none", "stat"}) =>
        /\ result = "err"
        /\ ~job.renamed
        /\ ReadDisk(job.out) = job.pre
        /\ job.tmpCreated => job.tmp \in DOMAIN disk

\* C2 witness: the read loop failed after a chunk had reached the temp file,
\* with an earlier file at the final path.
C2_Witness ==
    /\ job # NoJob /\ job.errAt = "stream" /\ job.k >= 1
    /\ job.tmpCreated /\ job.pre = Old

\* C3. Manifest completeness: a successful compress_path run over a tree of N
\* regular files (a valid worker count, no file touched by another process)
\* writes a manifest of exactly N entries, each digest that of its output
\* file.
C3_ManifestCompleteness ==
    (pc = "done" /\ result = "ok" /\ entry = "compress_path" /\ inKind = "dir"
        /\ threads >= 1 /\ ~tampered) =>
        /\ ManifestPath \in DOMAIN disk
        /\ Len(ManifestLines) = Cardinality(tree)
        /\ \A i \in 1..Len(ManifestLines) :
             ManifestLines[i].hash = Sha256(ReadDisk(Join(output, ManifestLines[i].file)))

\* C4. Fail-fast: once a file's job has failed in a directory compression,
\* the operation has returned an error, the failed job is the last one that
\* was started, no manifest has been persisted, and every output published
\* before is still on disk, complete.
C4_FailFast ==
    (inKind = "dir" /\ failed # {}) =>
        /\ result = "err" /\ pc = "failed"
        /\ failed = {started[Len(started)]}
        /\ inflight = {}
        /\ ManifestPath \notin DOMAIN disk
        /\ \A p \in published : p \in DOMAIN disk /\ disk[p].fin

\* C4 witness: a job failed after an earlier file was published, with files
\* of the tree not yet started.
C4_Witness ==
    /\ inKind = "dir" /\ failed # {} /\ published # {}
    /\ Len(started) >= 2 /\ Len(started) < Len(files)

\* C6. A successful directory compression through compress_path_with (a
\* valid worker count, at least one output file produced) leaves a manifest
\* in the output root with one record per produced output file.
C6_ManifestFromPluggableEntry ==
    (pc = "done" /\ result = "ok" /\ entry = "compress_path_with" /\ inKind = "dir"
        /\ threads >= 1 /\ published # {}) =>
        /\ ManifestPath \in DOMAIN disk
        /\ Len(ManifestLines) = Cardinality(published)

\* C7. Single-file integrity check: compress_path on a single input file,
\* the output an existing directory or an explicit file path, with a valid
\* worker count, no I/O fault and the output file left alone, records one
\* digest, verifies it against the output file and succeeds.
C7_SingleFileIntegrity ==
    (entry = "compress_path" /\ inKind = "file" /\ pc \in {"done", "failed"}
        /\ threads >= 1 /\ ~faulted /\ ~tampered) =>
        /\ result = "ok"
        /\ Len(manifest) = 1
        /\ vidx = 1

\* The entries of a sequence, and the one order of a set of entries that
\* ascends by path.
Entries(m) == { m[i] : i \in 1..Len(m) }
Ascending(s) ==
    \A i \in 1..(Len(s) - 1) : BytesLess(PathBytes(s[i].file), PathBytes(s[i + 1].file))
Canonical(S) == CHOOSE s \in Perms(S) : Ascending(s)

\* C9. Manifest determinism: the manifest file holds its entries in ascending
\* order of path, and once written it is the one ascending serialisation of
\* the set of entries, whatever the order the files were compressed in.
C9_ManifestDeterminism ==
    ManifestPath \in DOMAIN disk =>
        /\ Ascending(ManifestLines)
        /\ pc \in {"verify", "done"} =>
             /\ \E s \in Perms(Entries(manifest)) : Ascending(s)
             /\ ManifestLines = Canonical(Entries(manifest))

\* C9 witness: a manifest of two or more lines is written after the files
\* were compressed in descending order of key.
C9_Witness ==
    /\ ManifestPath \in DOMAIN disk /\ pc = "done"
    /\ Len(ManifestLines) >= 2
    /\ BytesLess(PathBytes(KeyOf(files[2])), PathBytes(KeyOf(files[1])))

\* C10. Bounded parallelism: in a directory compression with worker count
\* W >= 1, every job in flight runs on one of the W workers of the pool, and
\* at most W jobs are in flight.
C10_BoundedParallelism ==
    (inKind = "dir" /\ threads >= 1) =>
        /\ \A j \in inflight : j.runner \in 1..pool
        /\ Cardinality(inflight) <= threads

\* C11. Invalid worker count: a compression whose worker count is 0 is
\* rejected before any work begins: it never succeeds, no job is started
\* (no input file is read), and the file system keeps only the files it
\* held before the call (no temp file, output file or manifest is created).
C11_ZeroThreadsRejected ==
    threads = 0 =>
        /\ result # "ok"
        /\ started = <<>>
        /\ \A p \in DOMAIN disk : disk[p] = Old

\* C13. Manifest entries follow publication: in compress_path every entry of
\* the manifest map, and every line of the manifest file, belongs to an
\* output path that a job's rename has reached, and its digest is that of a
\* complete compressed output of this run, read from that path; there are
\* never more entries than renamed outputs, and the manifest file is not
\* written while a job is in flight.
C13_EntriesFollowPublication ==
    entry = "compress_path" =>
        LET KeyAt(p) == IF inKind = "file" THEN <<FileName(p)>>
                        ELSE SubSeq(p, Len(output) + 1, Len(p))
            Follows(e) ==
                /\ \E p \in published : KeyAt(p) = e.file
                /\ e.hash.sha.fin /\ e.hash.sha.codec = codec
                /\ \E i \in 1..Len(started) : started[i] = e.hash.sha.src
        IN /\ \A e \in Entries(manifest) : Follows(e)
           /\ Len(manifest) <= Cardinality(published)
           /\ ManifestPath \in DOMAIN disk =>
                /\ \A e \in Entries(ManifestLines) : Follows(e)
                /\ inflight = {}

\* C13 witness: the manifest map holds the entry of a renamed file while the
\* next job, its temp file written and not yet renamed, has none.
C13_Witness ==
    /\ entry = "compress_path" /\ pc = "job"
    /\ job.tmpCreated /\ ~job.renamed
    /\ Len(manifest) >= 1
    /\ \A e \in Entries(manifest) : e.file # KeyOf(job.input)

\* C15. Per-job progress is bounded: in compress_single_file and in
\* compress_single_file_with the position of the job's progress bar never
\* exceeds the total the bar was created with (the length metadata
\* reported), also when more bytes are read than that length.
C15_ProgressWithinTotal == rt.barPos <= rt.barLen

\* C12. Decompression publishes like compression: when a decompression
\* fails in its decoding (a malformed or truncated stream, here of one byte
\* or more), the output path is as it was before the call: no file was
\* created there, and an earlier file keeps its content.
C12_DecompressAtomic ==
    (rt.pc = "error" /\ Len(rt.final) >= 1) =>
        (rt.outExists = rt.preExists /\ rt.out = rt.preOut)

\* C14 (as stated). Decompression is independent of the manifest: no
\* decompression ends in the failure of a digest comparison against the
\* (readable) manifest beside its input, so that its outcome is that of the
\* decoding alone, whatever the manifest holds.
C14_ManifestIndependent == rt.mf.utf8 => rt.pc # "mfail"

\* C14 (amended). The bytes a decompression writes do not depend on the
\* manifest: a whole frame is always decoded to the bytes it was made of.
\* decompress_file_with never consults the manifest. decompress_file, its
\* output written, fails exactly when the manifest beside its input exists
\* and is unreadable or has a line that names the output's file name with a
\* digest other than the output's.
C14_ManifestCheckInDecompressFile ==
    LET Bad == /\ rt.mf.exists
               /\ \/ ~rt.mf.utf8
                  \/ \E i \in 1..Len(rt.mf.lines) :
                        /\ rt.mf.lines[i].file = OutName
                        /\ rt.mf.lines[i].hash # Sha256(rt.out)
    IN /\ (rt.final = Frame(rt.codec, rt.data) /\ rt.pc \in {"done", "mfail"}) =>
            (rt.outExists /\ rt.out = rt.data)
       /\ rt.final = Frame(rt.codec, rt.data) => rt.pc # "error"
       /\ rt.pc = "mfail" => (rt.fn = "native" /\ Bad)
       /\ (rt.pc = "done" /\ rt.fn = "native") => ~Bad

\* C14 witness: decompress_file has written the whole output, equal to the
\* original bytes, and fails on a manifest line carrying another digest.
C14_Witness ==
    /\ rt.pc = "mfail" /\ rt.fn = "native"
    /\ rt.mf.utf8 /\ Len(rt.mf.lines) >= 1
    /\ rt.outExists /\ rt.out = rt.data /\ Len(rt.data) >= 1

\* C8. Chunk sizing: choose_chunk_size(L) is L div 64 clamped to
\* [262144, 4194304]: 262144 for L < 64 * 262144 = 2^24, 4194304 for
\* L >= 64 * 4194304 = 2^28, and in between the c with 64c <= L < 64c + 64.
C8_ChunkSizing ==
    chunk # -1 =>
        LET hi == file_size[1]
            mid == file_size[2]
            lo == file_size[3]
        IN /\ 262144 <= chunk /\ chunk <= 4194304
           /\ (hi = 0 /\ mid = 0) => chunk = 262144
           /\ (hi > 0 \/ mid >= 16) => chunk = 4194304
           /\ (hi = 0 /\ mid \in 1..15) =>
                /\ chunk * 64 <= mid * Base + lo
                /\ mid * Base + lo < chunk * 64 + 64

\* C8 witness: a length whose chunk size is the scaled value, strictly
\* between the two limits.
C8_Witness == chunk > 262144 /\ chunk < 4194304

\* C5. Round trip: for every input and every codec, decompressing the
\* published output of the single-file compression succeeds and leaves an
\* output file equal, byte for byte, to the input.
C5_RoundTrip ==
    /\ rt.pc # "error"
    /\ rt.pc = "done" => rt.outExists /\ rt.out = rt.data

\* C5 witness: a round trip of a multi-read input holding a non-UTF-8 byte
\* is done, through gzip.
C5_Witness ==
    /\ rt.pc = "done" /\ rt.codec = "gz"
    /\ Len(rt.data) >= 3 /\ rt.data[1] = 159 /\ rt.data[3] = 0

====
